---- MODULE Spec2Model ----
(***************************************************************************)
(* Model of scripts/retrieve_daily_summaries.py: the per-station loop of   *)
(* __main__, the availability prober _check_station_data and the           *)
(* retrieval and assembly of one dataset per station.                      *)
(*                                                                         *)
(* Dates.  A 'YYYY-MM-DD' string is modelled by its day number and an ISO  *)
(* timestamp 'YYYY-MM-DDTHH:MM:SS' by a record [day, tod] (tod = time of   *)
(* day in ticks).  pd.to_datetime maps both to an instant counted in       *)
(* ticks, and str.split('T')[0] keeps the day of a timestamp.              *)
(*                                                                         *)
(* Remote service.  Every requests.get either raises Timeout or returns a  *)
(* response [status, errors, body].  The shape of the error payload is the *)
(* one the prober itself relies on: a 500 response carries an object       *)
(* errors = {message: ...} (lines 519-522), any other error response       *)
(* carries no 'errors' key or a list of field errors (lines 526-535).      *)
(*                                                                         *)
(* Opaque values that are only handed through (longitude, latitude,        *)
(* station name, the observation values of a row, the output directory)    *)
(* are left out of the records.                                            *)
(*                                                                         *)
(* Catalog.  _get_data_attrs, _get_weather_types and _get_soil_temps are   *)
(* followed statement by statement under SpecCatalog: a dictionary is a    *)
(* function from its keys and an entry a function from its attribute       *)
(* names to the strings of the source.                                     *)
(***************************************************************************)
EXTENDS Integers, Sequences, FiniteSets, TLC

\* ---------------------------------------------------------------- bounds
MaxStations == 2
MaxDay == 2
MaxTod == 1
MaxRows == 2

\* ------------------------------------------------------ program constants
FullHistoryStart == 0
StatusOK == 200
StatusServerError == 500
WeatherRangeStop == 23

Dataset == "daily-summaries"
WantedVars == <<"TMIN", "TMAX", "PRCP", "SNOW", "SNWD">>

\* -------------------------------------------------------------- universes
Days == FullHistoryStart..MaxDay
Now == MaxDay
TicksPerDay == MaxTod + 1
Stamps == [day : Days, tod : {0, MaxTod}]

StationPool == <<"USW00094728", "USC00457773", "USW00024233", "USC00350265">>

Min(a, b) == IF a < b THEN a ELSE b
Range(s) == {s[i] : i \in 1..Len(s)}
InSeq(x, s) == \E i \in 1..Len(s) : s[i] = x
IndexOf(x, s) == CHOOSE i \in 1..Len(s) : s[i] = x

\* The sub-sequence of `order` holding the members of S, in the order of
\* `order` (the lists a service that reports in a fixed order can return).
RECURSIVE Restrict(_, _)
Restrict(order, S) ==
    IF order = <<>> THEN <<>>
    ELSE (IF Head(order) \in S THEN <<Head(order)>> ELSE <<>>) \o Restrict(Tail(order), S)

\* ----------------------------------------------------------------- state
VARIABLES
    stations,              \* args['station']
    info,                  \* args['info']
    all_vars,              \* args['all']
    requested_start_date,  \* args['start']
    requested_end_date,    \* args['end']
    idx,                   \* position of the for loop in `stations`
    pc,                    \* control point of the script
    exception,             \* the exception that ended the process, if any
    request,               \* the last response object received
    vars,                  \* unpacked from the prober's return value
    start_date,
    end_date,
    data,                  \* the table / dataset of the current station
    save_path,
    files,                 \* names of the files present in the output directory
    sent,                  \* requests issued in the current loop iteration
    printed,               \* messages printed in the current loop iteration
    cpc,                   \* control point of a call of _get_data_attrs
    data_attrs,            \* the dictionary _get_data_attrs builds
    weather_codes,         \* the dictionary _get_weather_types builds
    soil_temps,            \* the dictionary _get_soil_temps builds
    wt_i,                  \* i of the loop of _get_weather_types
    soil_i,                \* i of the outer loop of _get_soil_temps
    soil_j                 \* j of the inner loop of _get_soil_temps

args == <<stations, info, all_vars, requested_start_date, requested_end_date>>
locals == <<vars, start_date, end_date, data, save_path>>
catalog == <<cpc, data_attrs, weather_codes, soil_temps, wt_i, soil_i, soil_j>>
allvars == <<stations, info, all_vars, requested_start_date, requested_end_date,
             idx, pc, exception, request, vars, start_date, end_date, data,
             save_path, files, sent, printed,
             cpc, data_attrs, weather_codes, soil_temps, wt_i, soil_i, soil_j>>

station == stations[idx]

\* ---------------------------------------------------------------- values
NoErrors == [kind |-> "absent", fields |-> <<>>]
NoResponse == [status |-> 0, errors |-> NoErrors, body |-> <<>>]
NoAttrs == [station |-> "", dataset |-> "", start_date |-> FullHistoryStart,
            end_date |-> FullHistoryStart]
NoTable == [columns |-> <<>>, time |-> <<>>, attrs |-> NoAttrs, var_attrs |-> {}]
NoPath == [station |-> "", dataset |-> "", start_date |-> FullHistoryStart,
           end_date |-> FullHistoryStart, suffix |-> ""]

Msg(m, e) == [msg |-> m, elements |-> e]

\* Error responses: 500 with an errors object, another code with no errors
\* key or with a list of field errors naming the given fields.
ErrorResponses ==
    {[status |-> StatusServerError, errors |-> [kind |-> "dict", fields |-> <<>>],
      body |-> <<>>]}
    \cup {[status |-> 400, errors |-> e, body |-> <<>>] :
            e \in {NoErrors, [kind |-> "list", fields |-> <<"startDate", "stations">>]}}

SearchResponse(results) == [status |-> StatusOK, errors |-> NoErrors, body |-> results]
SearchResult(ids, s, e) == [dataTypes |-> ids, startDate |-> s, endDate |-> e]

\* ------------------------------------------------------------------ URLs
construct_url(dataset, stn, start, end, search) ==
    [endpoint |-> IF search THEN "search" ELSE "data",
     dataset |-> dataset, stations |-> stn, startDate |-> start, endDate |-> end,
     format |-> IF search THEN "json" ELSE "csv"]

Exchange(url, answered) == [url |-> url, answered |-> answered]

\* ------------------------------------------------- error classification
\* The messages printed for a list of field errors (lines 527-535).
RECURSIVE field_errors(_)
field_errors(fields) ==
    IF fields = <<>> THEN <<>>
    ELSE <<IF Head(fields) \in {"startDate", "endDate"}
           THEN Msg("check_argument", <<Head(fields)>>)
           ELSE Msg("error_in_field", <<Head(fields)>>)>> \o field_errors(Tail(fields))

\* What iterating request.json()['errors'] does when the key is present.
errors_iteration(errors) ==
    IF errors.kind = "absent" THEN [raises |-> FALSE, out |-> <<>>]
    ELSE IF errors.kind = "dict" THEN [raises |-> TRUE, out |-> <<>>]
    ELSE [raises |-> FALSE, out |-> field_errors(errors.fields)]

\* ------------------------------------------------------------------ dates
\* pd.to_datetime of a 'YYYY-MM-DD' string and of an ISO timestamp string.
to_datetime(day) == day * TicksPerDay
to_datetime_stamp(stamp) == stamp.day * TicksPerDay + stamp.tod
\* station_start_date.split('T')[0]
split_T(stamp) == stamp.day

\* Lines 567-569 and 571-573: the comparison and the replacement of a date.
start_adjusted(start, station_start_date) ==
    to_datetime(start) < to_datetime_stamp(station_start_date)
end_adjusted(end, station_end_date) ==
    to_datetime(end) > to_datetime_stamp(station_end_date)
\* Mutants: the start always replaced; the end compared the wrong way round.
clamp_start_always(start, station_start_date) == split_T(station_start_date)
clamp_end_reversed(end, station_end_date) ==
    IF to_datetime(end) < to_datetime_stamp(station_end_date)
    THEN split_T(station_end_date) ELSE end
clamp_start(start, station_start_date) ==
    IF start_adjusted(start, station_start_date) THEN split_T(station_start_date) ELSE start
clamp_end(end, station_end_date) ==
    IF end_adjusted(end, station_end_date) THEN split_T(station_end_date) ELSE end

\* ------------------------------------------------- variable resolution
\* Lines 548-553: the variables of the result, and the local list `vars`
\* they are compared with.
\* Mutants: the reported list filtered by the wanted-list (reported order);
\* the wanted-list intersected in both modes.
vars_in_dataset_reported_order(data_type_ids, all) ==
    IF ~all THEN SelectSeq(data_type_ids, LAMBDA v : InSeq(v, WantedVars))
    ELSE data_type_ids
vars_in_dataset_no_filter(data_type_ids, all) == data_type_ids
vars_in_dataset_always_core(data_type_ids, all) ==
    SelectSeq(WantedVars, LAMBDA v : InSeq(v, data_type_ids))
vars_in_dataset(data_type_ids, all) ==
    IF ~all THEN SelectSeq(WantedVars, LAMBDA v : InSeq(v, data_type_ids))
    ELSE data_type_ids
checked_vars(data_type_ids, all) ==
    IF ~all THEN WantedVars ELSE vars_in_dataset(data_type_ids, all)
\* Line 561.
not_found(wanted, found) == SelectSeq(wanted, LAMBDA v : ~InSeq(v, found))

\* ---------------------------------------------------------------- prober
\* An outcome of a part of _check_station_data: `returns` is TRUE when the
\* function returns there (None unless `found`), `raises` names an exception.
Outcome(returns, found, raises, out, value) ==
    [returns |-> returns, found |-> found, raises |-> raises, out |-> out, value |-> value]
NoValue == [vars |-> <<>>, start_date |-> FullHistoryStart, end_date |-> FullHistoryStart]

\* request.json()['errors']['message'] of the two 500 branches.
errors_message(errors) ==
    IF errors.kind = "dict" THEN "none"
    ELSE IF errors.kind = "absent" THEN "KeyError" ELSE "TypeError"

\* Mutant: no return after the zero-results diagnostic.
check_full_no_return(r) ==
    IF r.status = StatusOK THEN
        Outcome(FALSE, FALSE, "none",
                IF Len(r.body) = 0 THEN <<Msg("no_data_station", <<>>)>> ELSE <<>>, NoValue)
    ELSE
        Outcome(r.status # StatusServerError, FALSE, "none",
                <<Msg("failed", <<>>), Msg("status_error", <<>>)>>, NoValue)

\* Lines 514-536: the response to the full-history query.
check_full(r) ==
    IF r.status = StatusOK THEN
        IF Len(r.body) = 0
        THEN Outcome(TRUE, FALSE, "none", <<Msg("no_data_station", <<>>)>>, NoValue)
        ELSE Outcome(FALSE, FALSE, "none", <<>>, NoValue)
    ELSE IF r.status = StatusServerError THEN
        Outcome(FALSE, FALSE, errors_message(r.errors),
                <<Msg("failed", <<>>), Msg("status_error", <<>>)>>
                \o (IF errors_message(r.errors) = "none"
                    THEN <<Msg("errors_message", <<>>)>> ELSE <<>>),
                NoValue)
    ELSE
        Outcome(TRUE, FALSE,
                IF errors_iteration(r.errors).raises THEN "TypeError" ELSE "none",
                <<Msg("failed", <<>>), Msg("status_error", <<>>)>>
                \o errors_iteration(r.errors).out,
                NoValue)

\* Lines 548-574: a success response with at least one result.
check_result(res, start, end, all) ==
    LET found == vars_in_dataset(res.dataTypes, all)
        wanted == checked_vars(res.dataTypes, all)
    IN  IF Len(found) = 0
        THEN Outcome(TRUE, FALSE, "none", <<Msg("no_core_elements", <<>>)>>, NoValue)
        ELSE Outcome(TRUE, TRUE, "none",
                (IF Len(found) < Len(wanted)
                 THEN <<Msg("elements_not_available", not_found(wanted, found))>>
                 ELSE <<>>)
                \o (IF start_adjusted(start, res.startDate)
                    THEN <<Msg("adjusted_start", <<>>)>> ELSE <<>>)
                \o (IF end_adjusted(end, res.endDate)
                    THEN <<Msg("adjusted_end", <<>>)>> ELSE <<>>),
                [vars |-> found,
                 start_date |-> clamp_start(start, res.startDate),
                 end_date |-> clamp_end(end, res.endDate)])

\* Lines 541-592: the response to the requested-range query.  The function
\* ends after either error branch: the 500 branch by falling off its end.
check_range(r, start, end, all) ==
    IF r.status = StatusOK THEN
        IF Len(r.body) = 0
        THEN Outcome(TRUE, FALSE, "none", <<Msg("no_data_range", <<>>)>>, NoValue)
        ELSE check_result(r.body[1], start, end, all)
    ELSE IF r.status = StatusServerError THEN
        Outcome(TRUE, FALSE, errors_message(r.errors),
                <<Msg("failed", <<>>), Msg("status_error", <<>>)>>
                \o (IF errors_message(r.errors) = "none"
                    THEN <<Msg("errors_message", <<>>)>> ELSE <<>>),
                NoValue)
    ELSE
        Outcome(TRUE, FALSE,
                IF errors_iteration(r.errors).raises THEN "TypeError" ELSE "none",
                <<Msg("failed", <<>>), Msg("status_error", <<>>)>>
                \o errors_iteration(r.errors).out,
                NoValue)

\* --------------------------------------------------------------- catalog
\* f'{i:02d}'
Pad2(i) == IF i < 10 THEN "0" \o ToString(i) ELSE ToString(i)

CoreKeys == {"tmin", "tmax", "prcp", "snow", "snwd"}
ExtendedKeys ==
    {"acmc", "acmh", "acsc", "acsh", "adpt", "aslp", "astp", "awbt", "awdr", "awnd",
     "daev", "dapr", "dasf", "datn", "datx", "dawm", "dwpr", "evap", "fmtm", "frgb",
     "frgt", "frth", "gaht", "mdev", "mdpr", "mdsf", "mdtn", "mdtx", "mdwm", "mnpn",
     "mxpn", "pgtm", "psun", "rhav", "rhmn", "rhmx", "taxn", "tavg", "thic", "tobs",
     "tsun", "wdf1", "wdf2", "wdf5", "wdfg", "wdfi", "wdfm", "wdmv", "wesd", "wesf",
     "wsf1", "wsf2", "wsf5", "wsfg", "wsfi", "wsfm"}
weather_type_keys ==
    {"wt" \o Pad2(i) : i \in 1..22} \cup {"wv" \o Pad2(i) : i \in {1, 3, 7, 18, 20}}
soil_temp_keys ==
    {p \o Pad2(i) \o Pad2(j + 1) : p \in {"sn", "sx"}, i \in 0..8, j \in 0..6}

AllKeys == CoreKeys \cup ExtendedKeys \cup weather_type_keys \cup soil_temp_keys

\* The keys of the dictionary _get_data_attrs(all_vars) returns.
data_attrs_keys(all) == IF all THEN AllKeys ELSE CoreKeys

\* str.lower on the column names the model uses.
Lower(s) ==
    CASE s = "TMIN" -> "tmin" [] s = "TMAX" -> "tmax" [] s = "PRCP" -> "prcp"
      [] s = "SNOW" -> "snow" [] s = "SNWD" -> "snwd" [] s = "AWND" -> "awnd"
      [] s = "SN32" -> "sn32" [] s = "STATION" -> "station" [] s = "DATE" -> "date"
      [] OTHER -> s

\* -------------------------------------------------------------- assembly
\* Line 664: the parsed table (DATE kept apart as the future index).
read_csv(body) ==
    [columns |-> body.columns, time |-> body.rows, attrs |-> NoAttrs, var_attrs |-> {}]
\* Lines 670-671: data[['DATE'] + vars].
select_columns(table, names) == [table EXCEPT !.columns = names]
\* Mutant: the index resampled to every day from the first row to the last.
set_index_resampled(table) ==
    IF table.time = <<>> THEN table
    ELSE LET first == table.time[1]
             last == table.time[Len(table.time)]
         IN  [table EXCEPT !.time = [i \in 1..(last - first + 1) |->
                                        to_datetime(first + i - 1)]]
\* Lines 672-675: the DATE column parsed and made the index.
set_index(table) ==
    [table EXCEPT !.time = [i \in 1..Len(table.time) |-> to_datetime(table.time[i])]]
\* Line 676.
rename_lower(table) ==
    [table EXCEPT !.columns = [i \in 1..Len(table.columns) |-> Lower(table.columns[i])]]
\* Lines 28-41.
get_global_attrs(dataset, stn, start, end) ==
    [station |-> stn, dataset |-> dataset, start_date |-> start, end_date |-> end]
\* Lines 680-681: attributes are attached in column order until a key is missing.
attach_attrs(ds, keys) ==
    LET missing == {i \in 1..Len(ds.columns) : ds.columns[i] \notin keys}
        stop == IF missing = {} THEN Len(ds.columns) + 1
                ELSE CHOOSE i \in missing : \A j \in missing : i <= j
    IN  [ds EXCEPT !.var_attrs = {ds.columns[i] : i \in 1..(stop - 1)}]
\* Mutant: the file named after the requested dates.
save_name_requested(stn, dataset, start, end, all) ==
    [station |-> stn, dataset |-> dataset, start_date |-> requested_start_date,
     end_date |-> requested_end_date, suffix |-> IF all THEN "all-vars" ELSE "core-vars"]
\* Lines 686-689: the file name (the directory left out).
save_name(stn, dataset, start, end, all) ==
    [station |-> stn, dataset |-> dataset, start_date |-> start, end_date |-> end,
     suffix |-> IF all THEN "all-vars" ELSE "core-vars"]

\* Lines 664-690 for a success response: the exception raised, if any, the
\* state of `data` when the block ends, and whether the file was written.
assemble(body, stn, names, start, end, all) ==
    IF ~body.header
    THEN [raises |-> "EmptyDataError", skip |-> FALSE, out |-> <<>>, data |-> data]
    ELSE IF Len(body.rows) = 0
    THEN [raises |-> "none", skip |-> TRUE,
          out |-> <<Msg("no_data_retrieved", <<>>)>>, data |-> read_csv(body)]
    ELSE IF ~(Range(names) \subseteq Range(body.columns))
    THEN [raises |-> "KeyError", skip |-> FALSE, out |-> <<>>, data |-> read_csv(body)]
    ELSE LET ds == [rename_lower(set_index(select_columns(read_csv(body), names)))
                        EXCEPT !.attrs = get_global_attrs(Dataset, stn, start, end)]
             done == attach_attrs(ds, data_attrs_keys(all))
         IN  [raises |-> IF done.var_attrs = Range(ds.columns) THEN "none" ELSE "KeyError",
              skip |-> FALSE, out |-> <<>>, data |-> done]

\* ------------------------------------------------- the catalog's records
\* A dictionary is a function from its keys; an entry is a function from
\* its attribute names to their strings.
EmptyDict == [k \in {} |-> ""]
\* dict.update
update(d, e) ==
    [k \in DOMAIN d \cup DOMAIN e |-> IF k \in DOMAIN e THEN e[k] ELSE d[k]]

\* Lines 135-168.
core_attrs ==
       ("tmin" :> ("units" :> "degrees_Celsius"
                    @@ "standard_name" :> "air_temperature"
                    @@ "long_name" :> "daily minimum air temperature"
                    @@ "cell_methods" :> "time: minimum (interval: 1 day)"
                    @@ "units_metadata" :> "on-scale"))
    @@ ("tmax" :> ("units" :> "degrees_Celsius"
                    @@ "standard_name" :> "air_temperature"
                    @@ "long_name" :> "daily maximum air temperature"
                    @@ "cell_methods" :> "time: maximum (interval: 1 day)"
                    @@ "units_metadata" :> "on-scale"))
    @@ ("prcp" :> ("units" :> "mm"
                    @@ "standard_name" :> "lwe_thickness_of_precipitation_amount"
                    @@ "long_name" :> "daily total precipitation"
                    @@ "cell_methods" :> "time: sum (interval: 1 day)"))
    @@ ("snow" :> ("units" :> "mm"
                    @@ "standard_name" :> "thickness_of_snowfall_amount"
                    @@ "long_name" :> "daily total snowfall"
                    @@ "cell_methods" :> "time: sum (interval: 1 day)"))
    @@ ("snwd" :> ("units" :> "mm"
                    @@ "standard_name" :> "surface_snow_thickness"
                    @@ "long_name" :> "daily snow depth"
                    @@ "cell_methods" :> "time: point"))

\* Lines 170-490.
extended_attrs ==
       ("acmc" :> ("units" :> "percent"
                    @@ "standard_name" :> "cloud_area_fraction"
                    @@ "long_name" :> "average cloudiness midnight to midnight"
                    @@ "cell_methods" :> "time: mean (interval: 1 day)"
                    @@ "method" :> "ceilometer"))
    @@ ("acmh" :> ("units" :> "percent"
                    @@ "standard_name" :> "cloud_area_fraction"
                    @@ "long_name" :> "average cloudiness midnight to midnight"
                    @@ "cell_methods" :> "time: mean (interval: 1 day)"
                    @@ "method" :> "manual"))
    @@ ("acsc" :> ("units" :> "percent"
                    @@ "standard_name" :> "cloud_area_fraction"
                    @@ "long_name" :> "average cloudiness sunrise to sunset"
                    @@ "method" :> "ceilometer"))
    @@ ("acsh" :> ("units" :> "percent"
                    @@ "standard_name" :> "cloud_area_fraction"
                    @@ "long_name" :> "average cloudiness sunrise to sunset"
                    @@ "method" :> "manual"))
    @@ ("adpt" :> ("units" :> "degrees_Celsius"
                    @@ "standard_name" :> "dew_point_temperature"
                    @@ "long name" :> "average dew point temperature for the day"
                    @@ "cell_methods" :> "time: mean (interval: 1 day)"
                    @@ "units_metadata" :> "on-scale"))
    @@ ("aslp" :> ("units" :> "hPa"
                    @@ "standard_name" :> "air_pressure_at_sea_level"
                    @@ "long_name" :> "average sea level pressure for the day"
                    @@ "cell_methods" :> "time: mean (interval: 1 day)"))
    @@ ("astp" :> ("units" :> "hPa"
                    @@ "standard_name" :> "air_pressure"
                    @@ "long_name" :> "average station pressure for the day"
                    @@ "cell_methods" :> "time: mean (interval: 1 day)"))
    @@ ("awbt" :> ("units" :> "degrees_Celsius"
                    @@ "standard_name" :> "wet_bulb_temperature"
                    @@ "long_name" :> "average wet bulb temperature for the day"
                    @@ "cell_methods" :> "time: mean (interval: 1 day)"
                    @@ "units_metadata" :> "on-scale"))
    @@ ("awdr" :> ("units" :> "degrees"
                    @@ "standard_name" :> "wind_from_direction"
                    @@ "long_name" :> "average wind direction for the day"
                    @@ "cell_methods" :> "time: mean (interval: 1 day)"
                    @@ "units_metadata" :> "direction_cw_from_north"))
    @@ ("awnd" :> ("units" :> "m/s"
                    @@ "standard_name" :> "wind_speed"
                    @@ "long_name" :> "average wind speed for the day"
                    @@ "cell_methods" :> "time: mean (interval: 1 day)"))
    @@ ("daev" :> ("units" :> "days"
                    @@ "standard_name" :> "number_of_days_in_evaporation_observation"
                    @@ "long_name" :> "number of days included in the multiday evaporation total (mdev)"))
    @@ ("dapr" :> ("units" :> "days"
                    @@ "standard_name" :> "number_of_days_in_precipitation_observation"
                    @@ "long_name" :> "number of days included in the multiday precipitation total (mdpr)"))
    @@ ("dasf" :> ("units" :> "days"
                    @@ "standard_name" :> "number_of_days_in_snowfall_observation"
                    @@ "long_name" :> "number of days included in the multiday snowfall total (mdsf)"))
    @@ ("datn" :> ("units" :> "days"
                    @@ "standard_name" :> "number_of_days_in_min_temperature_observation"
                    @@ "long_name" :> "number of days included in the multiday minimum temperature (mdtn)"))
    @@ ("datx" :> ("units" :> "days"
                    @@ "standard_name" :> "number_of_days_in_max_temperature_observation"
                    @@ "long_name" :> "number of days included in the multiday maximum temperature (mdtx)"))
    @@ ("dawm" :> ("units" :> "days"
                    @@ "standard_name" :> "number_of_days_in_wind_movement_observation"
                    @@ "long_name" :> "number of days included in the multiday wind movement (mdwm)"))
    @@ ("dwpr" :> ("units" :> "days"
                    @@ "standard_name" :> "number_of_days_with_nonzero_precipitation_in_precipitation_observation"
                    @@ "long_name" :> "number of days with non-zero precipitation included in the multiday precipitation total (mdpr)"))
    @@ ("evap" :> ("units" :> "mm"
                    @@ "standard_name" :> "lwe_thickness_of_water_evaporation_amount"
                    @@ "long_name" :> "daily total evaporation from evaporation pan"
                    @@ "cell_methods" :> "time: sum (interval: 1 day)"))
    @@ ("fmtm" :> ("units" :> "time_of_day"
                    @@ "standard_name" :> "time_of_fastest_1min_wind"
                    @@ "long_name" :> "time of fastest 1-minute wind speed"
                    @@ "units_metadata" :> "time_format_HHMM"))
    @@ ("frgb" :> ("units" :> "cm"
                    @@ "standard_name" :> "depth_at_base_of_unfrozen_ground"
                    @@ "long_name" :> "depth of base of frozen ground layer"))
    @@ ("frgt" :> ("units" :> "cm"
                    @@ "standard_name" :> "depth_at_top_of_frozen_ground_layer"
                    @@ "long_name" :> "depth of top of frozen ground layer"))
    @@ ("frth" :> ("units" :> "cm"
                    @@ "standard_name" :> "lwe_thickness_of_frozen_water_content_of_soil_layer"
                    @@ "long_name" :> "thickness of frozen ground layer"))
    @@ ("gaht" :> ("units" :> "cm"
                    @@ "standard_name" :> "difference_between_river_and_gauge_height"
                    @@ "long_name" :> "difference between river and gauge height"))
    @@ ("mdev" :> ("units" :> "mm"
                    @@ "standard_name" :> "lwe_thickness_of_water_evaporation_amount"
                    @@ "long_name" :> "multiday evaporation total (use with daev)"
                    @@ "cell_methods" :> "time: sum (interval: see variable daev)"))
    @@ ("mdpr" :> ("units" :> "mm"
                    @@ "standard_name" :> "lwe_thickness_of_precipitation_amount"
                    @@ "long_name" :> "multiday precipitation total (use with dapr)"
                    @@ "cell_methods" :> "time: sum (interval: see variable dapr)"))
    @@ ("mdsf" :> ("units" :> "mm"
                    @@ "standard_name" :> "lwe_thickness_of_snowfall_amount"
                    @@ "long_name" :> "multiday snowfall total (use with dasf)"
                    @@ "cell_methods" :> "time: sum (interval: see variable dasf)"))
    @@ ("mdtn" :> ("units" :> "degrees_Celsius"
                    @@ "standard_name" :> "air_temperature"
                    @@ "long_name" :> "multiday minimum temperature (use with datn)"
                    @@ "cell_methods" :> "time: minimum (interval: see variable datn)"))
    @@ ("mdtx" :> ("units" :> "degrees_Celsius"
                    @@ "standard_name" :> "air_temperature"
                    @@ "long_name" :> "multiday maximum temperature (use with datx)"
                    @@ "cell_methods" :> "time: maximum (interval: see variable datx)"))
    @@ ("mdwm" :> ("units" :> "km"
                    @@ "standard_name" :> "wind_movement"
                    @@ "long_name" :> "multiday wind movement (use with dawm)"
                    @@ "cell_methods" :> "time: sum (interval: see variable dawm)"))
    @@ ("mnpn" :> ("units" :> "degrees_Celsius"
                    @@ "standard_name" :> "temperature_in_evaporation_pan"
                    @@ "long_name" :> "minimum temperature in evaporation pan"
                    @@ "cell_methods" :> "time: minimum (interval: 1 day)"))
    @@ ("mxpn" :> ("units" :> "degrees_Celsius"
                    @@ "standard_name" :> "temperature_in_evaporation_pan"
                    @@ "long_name" :> "maximum temperature in evaporation pan"
                    @@ "cell_methods" :> "time: maximum (interval: 1 day)"))
    @@ ("pgtm" :> ("units" :> "time_of_day"
                    @@ "standard_name" :> "time_of_peak_wind_gust"
                    @@ "long_name" :> "time of peak wind gust"
                    @@ "units_metadata" :> "time_format_HHMM"))
    @@ ("psun" :> ("units" :> "percent"
                    @@ "standard_name" :> "sunshine_fraction"
                    @@ "long_name" :> "percent of possible sunshine"))
    @@ ("rhav" :> ("units" :> "percent"
                    @@ "standard_name" :> "relative_humidity"
                    @@ "long_name" :> "average relative humidity for the day"
                    @@ "cell_methods" :> "time: mean (interval: 1 day)"))
    @@ ("rhmn" :> ("units" :> "percent"
                    @@ "standard_name" :> "relative_humidity"
                    @@ "long_name" :> "minimum relative humidity for the day"
                    @@ "cell_methods" :> "time: minimum (interval: 1 day)"))
    @@ ("rhmx" :> ("units" :> "percent"
                    @@ "standard_name" :> "relative_humidity"
                    @@ "long_name" :> "maximum relative humidity for the day"
                    @@ "cell_methods" :> "time: maximum (interval: 1 day)"))
    @@ ("taxn" :> ("units" :> "degrees_Celsius"
                    @@ "standard_name" :> "air_temperature"
                    @@ "long_name" :> "average temperature for the day computed as tmax + tmin / 2"
                    @@ "cell_methods" :> "time: mean (interval: 1 day)"))
    @@ ("tavg" :> ("units" :> "degrees_Celsius"
                    @@ "standard_name" :> "air_temperature"
                    @@ "long_name" :> "average temperature for the day from hourly observations"
                    @@ "cell_methods" :> "time: mean (interval: 1 day)"))
    @@ ("thic" :> ("units" :> "mm"
                    @@ "standard_name" :> "floating_ice_thickness"
                    @@ "long_name" :> "thickness of ice on water"))
    @@ ("tobs" :> ("units" :> "degrees_Celsius"
                    @@ "standard_name" :> "air_temperature"
                    @@ "long_name" :> "temperature at the time of observation"))
    @@ ("tsun" :> ("units" :> "minutes"
                    @@ "standard_name" :> "sunshine_duration"
                    @@ "long_name" :> "total sunshine duration for the day"
                    @@ "cell_methods" :> "time: sum (interval: 1 day)"))
    @@ ("wdf1" :> ("units" :> "degrees"
                    @@ "standard_name" :> "wind_from_direction"
                    @@ "long_name" :> "direction of fastest 1-minute wind"
                    @@ "units_metadata" :> "direction_cw_from_north"))
    @@ ("wdf2" :> ("units" :> "degrees"
                    @@ "standard_name" :> "wind_from_direction"
                    @@ "long_name" :> "direction of fastest 2-minute wind"
                    @@ "units_metadata" :> "direction_cw_from_north"))
    @@ ("wdf5" :> ("units" :> "degrees"
                    @@ "standard_name" :> "wind_from_direction"
                    @@ "long_name" :> "direction of fastest 5-minute wind"
                    @@ "units_metadata" :> "direction_cw_from_north"))
    @@ ("wdfg" :> ("units" :> "degrees"
                    @@ "standard_name" :> "wind_from_direction"
                    @@ "long_name" :> "direction of peak gust"
                    @@ "units_metadata" :> "direction_cw_from_north"))
    @@ ("wdfi" :> ("units" :> "degrees"
                    @@ "standard_name" :> "wind_from_direction"
                    @@ "long_name" :> "direction of highest instantaneous wind"
                    @@ "units_metadata" :> "direction_cw_from_north"))
    @@ ("wdfm" :> ("units" :> "degrees"
                    @@ "standard_name" :> "wind_from_direction"
                    @@ "long_name" :> "fastest mile wind direction"
                    @@ "units_metadata" :> "direction_cw_from_north"))
    @@ ("wdmv" :> ("units" :> "km"
                    @@ "standard_name" :> "wind_movement"
                    @@ "long_name" :> "wind movement for the day"
                    @@ "cell_methods" :> "time: sum (interval: 1 day)"))
    @@ ("wesd" :> ("units" :> "mm"
                    @@ "standard_name" :> "lwe_thickness_of_surface_snow_amount"
                    @@ "long_name" :> "water equivalent of snow on the ground"))
    @@ ("wesf" :> ("units" :> "mm"
                    @@ "standard_name" :> "lwe_thickness_of_snowfall_amount"
                    @@ "long_name" :> "water equivalent of snowfall"))
    @@ ("wsf1" :> ("units" :> "m/s"
                    @@ "standard_name" :> "wind_speed"
                    @@ "long_name" :> "fastest 1-minute wind speed"))
    @@ ("wsf2" :> ("units" :> "m/s"
                    @@ "standard_name" :> "wind_speed"
                    @@ "long_name" :> "fastest 2-minute wind speed"))
    @@ ("wsf5" :> ("units" :> "m/s"
                    @@ "standard_name" :> "wind_speed"
                    @@ "long_name" :> "fastest 5-minute wind speed"))
    @@ ("wsfg" :> ("units" :> "m/s"
                    @@ "standard_name" :> "wind_speed"
                    @@ "long_name" :> "peak gust wind speed"))
    @@ ("wsfi" :> ("units" :> "m/s"
                    @@ "standard_name" :> "wind_speed"
                    @@ "long_name" :> "highest instantaneous wind speed"))
    @@ ("wsfm" :> ("units" :> "m/s"
                    @@ "standard_name" :> "wind_speed"
                    @@ "long_name" :> "fastest mile wind speed"))

\* Lines 93-116.
weather_types ==
    <<"Fog, ice fog, or freezing fog (may include heavy fog)",
      "Heavy fog or heaving freezing fog (not always distinguished from fog)",
      "Thunder",
      "Ice pellets, sleet, snow pellets, or small hail",
      "Hail (may include small hail)",
      "Glaze or rime",
      "Dust, volcanic ash, blowing dust, blowing sand, or blowing obstruction",
      "Smoke or haze",
      "Blowing or drifting snow",
      "Tornado, waterspout, or funnel cloud",
      "High or damaging winds",
      "Blowing spray",
      "Mist",
      "Drizzle",
      "Freezing drizzle",
      "Rain (may include freezing rain, drizzle, and freezing drizzle)",
      "Freezing rain",
      "Snow, snow pellets, snow grains, or ice crystals",
      "Unknown source of precipitation",
      "not used",
      "Ground fog",
      "Ice fog or freezing fog">>

\* Lines 46-65.
ground_cover ==
    <<"unknown", "grass", "fallow", "bare ground", "brome grass", "sod",
      "straw multch", "grass muck", "bare muck">>
depth_codes == <<"5", "10", "20", "50", "100", "150", "180">>

\* Mutant: the depth index counted from 0.
soil_code_zero_based(prefix, i, j) == prefix \o Pad2(i) \o Pad2(j)
\* Lines 69 and 79: f'sn{i:02d}{j+1:02d}', i and j counted from 0.
soil_code(prefix, i, j) == prefix \o Pad2(i) \o Pad2(j + 1)
\* Lines 69-76 and 79-86: the entry of ground cover i and depth j.
soil_entry(extremum, i, j) ==
    "units" :> "degrees_Celsius"
    @@ "standard_name" :> "soil_temperature"
    @@ "long_name" :> (extremum \o " soil temperature at {depth} depth under {ground_cover}")
    @@ "depth" :> (depth_codes[j + 1] \o " cm")
    @@ "ground_cover" :> ground_cover[i + 1]
    @@ "cell_methods" :> ("time: " \o extremum \o " (interval: 1 day)")

\* Mutant: index 19 taken for index 20.
in_vicinity_19(i) == i \in {1, 3, 7, 18, 19}
\* Line 124.
in_vicinity(i) == i = 1 \/ i = 3 \/ i = 7 \/ i = 18 \/ i = 20
\* Lines 119-122 and 126-129.
weather_entry(long_name, i) == "long_name" :> long_name @@ "type" :> weather_types[i]

\* ------------------------------------------------- the service's replies
\* The identifiers the search endpoint lists, in the order it lists them.
ServiceOrder == <<"AWND", "PRCP", "SNOW", "SNWD", "TMAX", "TMIN">>
WholeCoverage == <<[day |-> FullHistoryStart, tod |-> 0], [day |-> MaxDay, tod |-> MaxTod]>>

FullResponses ==
    ErrorResponses
    \cup {SearchResponse(<<>>),
          SearchResponse(<<SearchResult(ServiceOrder, WholeCoverage[1], WholeCoverage[2])>>)}

\* The requested ranges explored with the whole loop: the default (full
\* history to now) and a single day.
LoopRequested == {<<FullHistoryStart, Now>>, <<1, 1>>}

\* Replies to the requested-range query explored with the whole loop: SN32
\* is an identifier of the service that has no catalog entry.
LoopOrder == <<"AWND", "PRCP", "SN32", "TMIN">>
LoopReported ==
    {Restrict(LoopOrder, S) :
        S \in {{}, {"TMIN"}, {"PRCP", "TMIN"}, {"AWND"}, {"SN32", "TMIN"}}}
LoopCoverage == {WholeCoverage, <<[day |-> 1, tod |-> 0], [day |-> 1, tod |-> MaxTod]>>}
LoopRangeResponses ==
    ErrorResponses
    \cup {SearchResponse(<<>>)}
    \cup {SearchResponse(<<SearchResult(ids, c[1], c[2])>>) :
            ids \in LoopReported, c \in LoopCoverage}

\* Replies to the requested-range query explored with the prober alone:
\* every list the service can report and every coverage.
ProberReported == {Restrict(ServiceOrder, S) : S \in SUBSET Range(ServiceOrder)}
ProberRangeResponses ==
    ErrorResponses
    \cup {SearchResponse(<<>>)}
    \cup {SearchResponse(<<SearchResult(ids, s, e)>>) :
            ids \in ProberReported, s \in Stamps, e \in Stamps}

\* The rows of a table, given by their dates: the service has a row for
\* every day but day 1 (a gap), and returns the first k of them, k <= MaxRows.
DaySeq == [i \in 1..(MaxDay - FullHistoryStart + 1) |-> FullHistoryStart + i - 1]
GapSeq == Restrict(DaySeq, Days \ {1})
RowLists == {SubSeq(GapSeq, 1, k) : k \in 0..Min(MaxRows, Len(GapSeq))}
\* The variable columns of a table: none, those of a reported list, and more.
LoopColumns ==
    {{}, {"TMIN"}, {"PRCP", "TMIN"}, {"AWND", "TMIN"}, {"SN32", "TMIN"}, Range(LoopOrder)}
CsvBody(header, columns, rows) == [header |-> header, columns |-> columns, rows |-> rows]
DataResponses ==
    ErrorResponses
    \cup {[status |-> StatusOK, errors |-> NoErrors, body |-> CsvBody(FALSE, <<>>, <<>>)]}
    \cup {[status |-> StatusOK, errors |-> NoErrors,
           body |-> CsvBody(TRUE, <<"STATION">> \o Restrict(LoopOrder, S), rows)] :
            S \in LoopColumns, rows \in RowLists}

\* ------------------------------------------------------------------ Init
InitLocals ==
    /\ idx = 1
    /\ pc = "probe_full"
    /\ exception = "none"
    /\ request = NoResponse
    /\ vars = <<>>
    /\ start_date = FullHistoryStart
    /\ end_date = FullHistoryStart
    /\ data = NoTable
    /\ save_path = NoPath
    /\ files = {}
    /\ sent = <<>>
    /\ printed = <<>>

\* No call of _get_data_attrs is being followed.
CatalogIdle ==
    /\ cpc = "idle"
    /\ data_attrs = EmptyDict
    /\ weather_codes = EmptyDict
    /\ soil_temps = EmptyDict
    /\ wt_i = 1
    /\ soil_i = 0
    /\ soil_j = 0

\* Lines 596-612: the parsed arguments.
Init ==
    /\ stations \in {SubSeq(StationPool, 1, n) : n \in 1..Min(MaxStations, Len(StationPool))}
    /\ info \in BOOLEAN
    /\ all_vars \in BOOLEAN
    /\ \E r \in LoopRequested : requested_start_date = r[1] /\ requested_end_date = r[2]
    /\ InitLocals
    /\ CatalogIdle

\* One call of the prober, for any requested range.
InitProber ==
    /\ stations = <<StationPool[1]>>
    /\ info = FALSE
    /\ all_vars \in BOOLEAN
    /\ requested_start_date \in Days
    /\ requested_end_date \in Days
    /\ InitLocals
    /\ CatalogIdle

\* --------------------------------------------------------------- actions
\* The process ends with an uncaught exception.
Raise(e) ==
    /\ pc' = "raised"
    /\ exception' = e

\* Lines 512-536: the full-history query of _check_station_data.  A None
\* return makes the caller's unpacking raise TypeError, which it catches
\* (lines 621-622, 640-641).
FullHistoryQuery ==
    /\ pc = "probe_full"
    /\ LET url == construct_url(Dataset, station, FullHistoryStart, Now, TRUE)
       IN  \/ /\ sent' = Append(sent, Exchange(url, FALSE))
              /\ Raise("Timeout")
              /\ UNCHANGED <<request, printed>>
           \/ \E r \in FullResponses :
                LET o == check_full(r)
                IN  /\ sent' = Append(sent, Exchange(url, TRUE))
                    /\ request' = r
                    /\ printed' = printed \o o.out
                    /\ IF o.raises = "KeyError" THEN Raise("KeyError")
                       ELSE /\ pc' = IF o.returns \/ o.raises = "TypeError"
                                     THEN "skipped" ELSE "probe_range"
                            /\ UNCHANGED exception
    /\ UNCHANGED <<args, idx, locals, files, catalog>>

\* Mutant: with --info the loop body goes on to the retrieval of lines 643-691.
RangeQuery_info_retrieves(Responses) ==
    /\ pc = "probe_range"
    /\ LET url == construct_url(Dataset, station, requested_start_date,
                                requested_end_date, TRUE)
       IN  \/ /\ sent' = Append(sent, Exchange(url, FALSE))
              /\ Raise("Timeout")
              /\ UNCHANGED <<request, printed, vars, start_date, end_date>>
           \/ \E r \in Responses :
                LET o == check_range(r, requested_start_date, requested_end_date, all_vars)
                IN  /\ sent' = Append(sent, Exchange(url, TRUE))
                    /\ request' = r
                    /\ IF o.raises = "KeyError"
                       THEN /\ Raise("KeyError")
                            /\ printed' = printed \o o.out
                            /\ UNCHANGED <<vars, start_date, end_date>>
                       ELSE IF o.raises = "TypeError" \/ ~o.found
                       THEN /\ pc' = "skipped"
                            /\ printed' = printed \o o.out
                            /\ UNCHANGED <<exception, vars, start_date, end_date>>
                       ELSE /\ vars' = o.value.vars
                            /\ start_date' = o.value.start_date
                            /\ end_date' = o.value.end_date
                            /\ pc' = "retrieve"
                            /\ printed' = printed \o o.out
                                 \o (IF info THEN <<Msg("station_summary", o.value.vars)>>
                                     ELSE <<>>)
                            /\ UNCHANGED exception
    /\ UNCHANGED <<args, idx, data, save_path, files, catalog>>

\* Lines 539-592 and the caller's unpacking and, with --info, lines 623-630.
RangeQuery(Responses) ==
    /\ pc = "probe_range"
    /\ LET url == construct_url(Dataset, station, requested_start_date,
                                requested_end_date, TRUE)
       IN  \/ /\ sent' = Append(sent, Exchange(url, FALSE))
              /\ Raise("Timeout")
              /\ UNCHANGED <<request, printed, vars, start_date, end_date>>
           \/ \E r \in Responses :
                LET o == check_range(r, requested_start_date, requested_end_date, all_vars)
                IN  /\ sent' = Append(sent, Exchange(url, TRUE))
                    /\ request' = r
                    /\ IF o.raises = "KeyError"
                       THEN /\ Raise("KeyError")
                            /\ printed' = printed \o o.out
                            /\ UNCHANGED <<vars, start_date, end_date>>
                       ELSE IF o.raises = "TypeError" \/ ~o.found
                       THEN /\ pc' = "skipped"
                            /\ printed' = printed \o o.out
                            /\ UNCHANGED <<exception, vars, start_date, end_date>>
                       ELSE /\ vars' = o.value.vars
                            /\ start_date' = o.value.start_date
                            /\ end_date' = o.value.end_date
                            /\ pc' = IF info THEN "informed" ELSE "retrieve"
                            /\ printed' = printed \o o.out
                                 \o (IF info THEN <<Msg("station_summary", o.value.vars)>>
                                     ELSE <<>>)
                            /\ UNCHANGED exception
    /\ UNCHANGED <<args, idx, data, save_path, files, catalog>>

\* Lines 644-691: the data request, the assembly of the dataset and the file.
DataRetrieval ==
    /\ pc = "retrieve"
    /\ LET url == construct_url(Dataset, station, start_date, end_date, FALSE)
       IN  \/ /\ sent' = Append(sent, Exchange(url, FALSE))
              /\ Raise("Timeout")
              /\ printed' = Append(printed, Msg("retrieving", <<>>))
              /\ UNCHANGED <<request, data, save_path, files>>
           \/ \E r \in DataResponses :
                /\ sent' = Append(sent, Exchange(url, TRUE))
                /\ request' = r
                /\ IF r.status # StatusOK
                   THEN LET it == errors_iteration(r.errors)
                        IN  /\ printed' = printed
                                 \o <<Msg("retrieving", <<>>), Msg("failed", <<>>),
                                      Msg("status_error", <<>>)>> \o it.out
                            /\ IF it.raises THEN Raise("TypeError")
                               ELSE pc' = "skipped" /\ UNCHANGED exception
                            /\ UNCHANGED <<data, save_path, files>>
                   ELSE LET a == assemble(r.body, station, vars, start_date, end_date,
                                          all_vars)
                            name == save_name(station, Dataset, start_date, end_date,
                                              all_vars)
                        IN  /\ printed' = printed
                                 \o <<Msg("retrieving", <<>>), Msg("done", <<>>)>> \o a.out
                            /\ data' = a.data
                            /\ IF a.raises # "none"
                               THEN Raise(a.raises) /\ UNCHANGED <<save_path, files>>
                               ELSE IF a.skip
                               THEN /\ pc' = "skipped"
                                    /\ UNCHANGED <<exception, save_path, files>>
                               ELSE /\ pc' = "saved"
                                    /\ save_path' = name
                                    /\ files' = files \cup {name}
                                    /\ UNCHANGED exception
    /\ UNCHANGED <<args, idx, vars, start_date, end_date, catalog>>

\* Mutant: the next station is probed for the range the last one was
\* clamped to.
ForStation_keeps_range ==
    /\ pc \in {"skipped", "saved", "informed"}
    /\ IF idx < Len(stations)
       THEN /\ idx' = idx + 1
            /\ pc' = "probe_full"
            /\ sent' = <<>>
            /\ printed' = <<>>
            /\ requested_start_date' = start_date
            /\ requested_end_date' = end_date
       ELSE /\ pc' = "done"
            /\ UNCHANGED <<idx, sent, printed, requested_start_date, requested_end_date>>
    /\ UNCHANGED <<stations, info, all_vars, exception, request, locals, files, catalog>>

\* The for statement (lines 615, 632) taking the next station, or ending.
ForStation ==
    /\ pc \in {"skipped", "saved", "informed"}
    /\ IF idx < Len(stations)
       THEN /\ idx' = idx + 1
            /\ pc' = "probe_full"
            /\ sent' = <<>>
            /\ printed' = <<>>
       ELSE /\ pc' = "done"
            /\ UNCHANGED <<idx, sent, printed>>
    /\ UNCHANGED <<args, exception, request, locals, files, catalog>>

Next ==
    \/ FullHistoryQuery
    \/ RangeQuery(LoopRangeResponses)
    \/ DataRetrieval
    \/ ForStation

Spec == Init /\ [][Next]_allvars

NextProber ==
    \/ FullHistoryQuery
    \/ RangeQuery(ProberRangeResponses)

SpecProber == InitProber /\ [][NextProber]_allvars

\* ------------------------------------------- one call of _get_data_attrs
\* A call of _get_data_attrs(all_vars), as line 681 makes it.
InitCatalog ==
    /\ stations = <<StationPool[1]>>
    /\ info = FALSE
    /\ all_vars \in BOOLEAN
    /\ requested_start_date = FullHistoryStart
    /\ requested_end_date = Now
    /\ InitLocals
    /\ cpc = "core"
    /\ data_attrs = EmptyDict
    /\ weather_codes = EmptyDict
    /\ soil_temps = EmptyDict
    /\ wt_i = 1
    /\ soil_i = 0
    /\ soil_j = 0

program == <<args, idx, pc, exception, request, locals, files, sent, printed>>

\* Lines 135-169: the core entries, returned as they are without all_vars.
CoreEntries ==
    /\ cpc = "core"
    /\ data_attrs' = core_attrs
    /\ cpc' = IF all_vars THEN "extended" ELSE "return"
    /\ UNCHANGED <<program, weather_codes, soil_temps, wt_i, soil_i, soil_j>>

\* Lines 170-490, and the entry into _get_weather_types (lines 92-117).
ExtendedEntries ==
    /\ cpc = "extended"
    /\ data_attrs' = update(data_attrs, extended_attrs)
    /\ weather_codes' = EmptyDict
    /\ wt_i' = 1
    /\ cpc' = "weather_wt"
    /\ UNCHANGED <<program, soil_temps, soil_i, soil_j>>

\* Lines 118-123: the wt entry of iteration i.
WeatherType ==
    /\ cpc = "weather_wt"
    /\ weather_codes' =
         update(weather_codes, ("wt" \o Pad2(wt_i)) :> weather_entry("weather type", wt_i))
    /\ cpc' = "weather_wv"
    /\ UNCHANGED <<program, data_attrs, soil_temps, wt_i, soil_i, soil_j>>

\* Lines 124-130: the wv entry of iteration i, if any, and the next i of
\* range(1, 23).
WeatherVicinity ==
    /\ cpc = "weather_wv"
    /\ weather_codes' =
         IF in_vicinity(wt_i)
         THEN update(weather_codes,
                     ("wv" \o Pad2(wt_i)) :> weather_entry("weather in the vincinity", wt_i))
         ELSE weather_codes
    /\ IF wt_i + 1 < WeatherRangeStop
       THEN wt_i' = wt_i + 1 /\ cpc' = "weather_wt"
       ELSE wt_i' = wt_i /\ cpc' = "weather_done"
    /\ UNCHANGED <<program, data_attrs, soil_temps, soil_i, soil_j>>

\* Line 491, and the entry into _get_soil_temps (lines 45-67).
UpdateWeather ==
    /\ cpc = "weather_done"
    /\ data_attrs' = update(data_attrs, weather_codes)
    /\ soil_temps' = EmptyDict
    /\ soil_i' = 0
    /\ soil_j' = 0
    /\ cpc' = "soil_sn"
    /\ UNCHANGED <<program, weather_codes, wt_i>>

\* Lines 68-77: the entry of the minimum.
SoilMinimum ==
    /\ cpc = "soil_sn"
    /\ soil_temps' =
         update(soil_temps,
                soil_code("sn", soil_i, soil_j) :> soil_entry("minimum", soil_i, soil_j))
    /\ cpc' = "soil_sx"
    /\ UNCHANGED <<program, data_attrs, weather_codes, wt_i, soil_i, soil_j>>

\* Lines 78-87: the entry of the maximum, and the next (i, j) of the loops.
SoilMaximum ==
    /\ cpc = "soil_sx"
    /\ soil_temps' =
         update(soil_temps,
                soil_code("sx", soil_i, soil_j) :> soil_entry("maximum", soil_i, soil_j))
    /\ IF soil_j + 1 < Len(depth_codes)
       THEN soil_j' = soil_j + 1 /\ soil_i' = soil_i /\ cpc' = "soil_sn"
       ELSE IF soil_i + 1 < Len(ground_cover)
       THEN soil_j' = 0 /\ soil_i' = soil_i + 1 /\ cpc' = "soil_sn"
       ELSE soil_j' = soil_j /\ soil_i' = soil_i /\ cpc' = "soil_done"
    /\ UNCHANGED <<program, data_attrs, weather_codes, wt_i>>

\* Lines 492-493.
UpdateSoil ==
    /\ cpc = "soil_done"
    /\ data_attrs' = update(data_attrs, soil_temps)
    /\ cpc' = "return"
    /\ UNCHANGED <<program, weather_codes, soil_temps, wt_i, soil_i, soil_j>>

NextCatalog ==
    \/ CoreEntries
    \/ ExtendedEntries
    \/ WeatherType
    \/ WeatherVicinity
    \/ UpdateWeather
    \/ SoilMinimum
    \/ SoilMaximum
    \/ UpdateSoil

SpecCatalog == InitCatalog /\ [][NextCatalog]_allvars

\* ---------------------------------------------------------------- claims
\* The n-th request of the current iteration was answered and nothing
\* happened since: `request` is its response.
JustAnswered(n) == Len(sent) = n /\ sent[n].answered
\* The last request of the current iteration raised Timeout.
TimedOut == Len(sent) > 0 /\ ~sent[Len(sent)].answered
\* The prober returned a result (and `request` is the range response).
Returned == pc \in {"retrieve", "informed"}
Printed(m) == \E i \in 1..Len(printed) : printed[i].msg = m
NoFileFor(stn) == \A f \in files : f.station # stn

\* C1: a response that is not a success, to the full-history search or to
\* the requested-range search, makes the prober return no result: the
\* station is skipped and no further request follows for it.
C1_NonSuccessSearchReturnsNone ==
    \A n \in {1, 2} :
        (JustAnswered(n) /\ request.status # StatusOK) => pc = "skipped"

\* C2: a success response with zero results to the full-history search
\* makes the prober return no result: that query stays the only request of
\* the station, its diagnostic is printed, no file exists for the station,
\* and the loop takes the next station (or ends after the last one).
FullHistoryEmpty ==
    JustAnswered(1) /\ request.status = StatusOK /\ Len(request.body) = 0
C2_EmptyFullHistorySkipsStation ==
    [][FullHistoryEmpty =>
        /\ pc = "skipped"
        /\ printed = <<Msg("no_data_station", <<>>)>>
        /\ NoFileFor(station)
        /\ files' = files
        /\ IF idx < Len(stations)
           THEN idx' = idx + 1 /\ pc' = "probe_full"
           ELSE idx' = idx /\ pc' = "done"]_allvars
C2_Witness == FullHistoryEmpty /\ idx < Len(stations)

\* C3: no per-station failure of the taxonomy (an error response, an empty
\* payload, a variable without catalog entry, a resolved variable missing
\* from the table) ends the run: while stations remain in the list, the
\* process never stops on an exception raised while handling a response.
C3_FailuresNeverHaltRun ==
    (pc = "raised" /\ idx < Len(stations)) => exception = "Timeout"

\* C4: when a remote call times out while stations remain in the list, the
\* station is skipped and the loop goes on.
C4_TimeoutSkipsStation ==
    (TimedOut /\ idx < Len(stations)) => pc = "skipped"

\* C5: clamping against the coverage of the range response, by days: a
\* request wider than the coverage on both sides yields the coverage, a
\* request inside the coverage is unchanged, and clamping the result again
\* changes nothing.
CoverageStart == request.body[1].startDate
CoverageEnd == request.body[1].endDate
C5_ClampToCoverage ==
    Returned =>
        /\ (requested_start_date < split_T(CoverageStart)
            /\ requested_end_date > split_T(CoverageEnd))
           => (start_date = split_T(CoverageStart) /\ end_date = split_T(CoverageEnd))
        /\ (split_T(CoverageStart) <= requested_start_date
            /\ requested_end_date <= split_T(CoverageEnd))
           => (start_date = requested_start_date /\ end_date = requested_end_date)
        /\ clamp_start(start_date, CoverageStart) = start_date
        /\ clamp_end(end_date, CoverageEnd) = end_date
C5_Witness ==
    /\ Returned
    /\ requested_start_date < split_T(CoverageStart)
    /\ requested_end_date > split_T(CoverageEnd)
    /\ start_date = split_T(CoverageStart)
    /\ end_date = split_T(CoverageEnd)
    /\ CoverageEnd.tod > 0

\* C6: the effective range is never wider than the requested one nor than
\* the coverage, and each endpoint depends on its own side only: the start
\* is the later of the requested and the station start, the end the earlier
\* of the requested and the station end (by days).
C6_ClampInward ==
    Returned =>
        /\ start_date >= requested_start_date
        /\ end_date <= requested_end_date
        /\ start_date >= split_T(CoverageStart)
        /\ end_date <= split_T(CoverageEnd)
        /\ start_date \in {requested_start_date, split_T(CoverageStart)}
        /\ end_date \in {requested_end_date, split_T(CoverageEnd)}
C6_Witness ==
    /\ Returned
    /\ split_T(CoverageStart) < requested_start_date
    /\ split_T(CoverageEnd) < requested_end_date
    /\ start_date = requested_start_date
    /\ end_date = split_T(CoverageEnd)

\* C7: in core-variable mode, for a success response with a result to the
\* requested-range search, the resolved list holds exactly the wanted
\* variables the service reports, in wanted-list order; an empty list makes
\* the prober return no result; a shorter list than the wanted-list comes
\* with one note naming exactly the missing wanted variables, the full list
\* with none.
RangeFound == JustAnswered(2) /\ request.status = StatusOK /\ Len(request.body) > 0
Reported == request.body[1].dataTypes
Available == Range(WantedVars) \cap Range(Reported)
Notes == {i \in 1..Len(printed) : printed[i].msg = "elements_not_available"}
C7_CoreVariablesResolved ==
    (~all_vars /\ RangeFound) =>
        IF Available = {}
        THEN pc = "skipped" /\ Printed("no_core_elements")
        ELSE /\ Returned
             /\ Range(vars) = Available
             /\ Len(vars) = Cardinality(Available)
             /\ \A i, j \in 1..Len(vars) :
                    i < j => IndexOf(vars[i], WantedVars) < IndexOf(vars[j], WantedVars)
             /\ ~Printed("no_core_elements")
             /\ IF Available = Range(WantedVars)
                THEN Notes = {}
                ELSE /\ Cardinality(Notes) = 1
                     /\ \A i \in Notes :
                            /\ Range(printed[i].elements) = Range(WantedVars) \ Available
                            /\ Len(printed[i].elements)
                                 = Cardinality(Range(WantedVars) \ Available)
C7_Witness ==
    /\ ~all_vars
    /\ RangeFound
    /\ Returned
    /\ vars = <<"TMIN", "TMAX", "PRCP">>
    /\ \E i \in Notes : printed[i].elements = <<"SNOW", "SNWD">>

\* C8 as stated: in all-variables mode every success response with a result
\* makes the prober return the reported list unchanged, with no
\* NoCoreVariables failure and no note.
C8_AllVariablesAlwaysReturned ==
    (all_vars /\ RangeFound) =>
        /\ Returned
        /\ vars = Reported
        /\ Notes = {}
        /\ ~Printed("no_core_elements")
\* C8 as amended: that holds when the reported list is not empty; an empty
\* reported list takes the branch of NoCoreVariables and no result is
\* returned.
C8_AllVariablesReturnedUnlessEmpty ==
    (all_vars /\ RangeFound) =>
        IF Reported = <<>>
        THEN pc = "skipped" /\ Printed("no_core_elements")
        ELSE /\ Returned
             /\ vars = Reported
             /\ Notes = {}
             /\ ~Printed("no_core_elements")
C8_Witness ==
    /\ all_vars
    /\ RangeFound
    /\ Returned
    /\ Reported = ServiceOrder
    /\ vars = ServiceOrder

\* C9: the dataset of a written file has the lowercased resolved variables
\* as its data variables and nothing else, the dates of the rows of the
\* response as its time index, and the station id as its attribute
\* 'station'; and that file is the one file of the station.
C9_DatasetWritten ==
    pc = "saved" =>
        /\ Len(data.columns) = Len(vars)
        /\ \A i \in 1..Len(vars) : data.columns[i] = Lower(vars[i])
        /\ Len(data.time) = Len(request.body.rows)
        /\ \A i \in 1..Len(data.time) : data.time[i] = to_datetime(request.body.rows[i])
        /\ data.attrs.station = station
        /\ save_path \in files
        /\ {f \in files : f.station = station} = {save_path}
C9_Witness ==
    /\ pc = "saved"
    /\ Len(request.body.columns) > Len(vars) + 1
    /\ Len(vars) = 2
    /\ Len(data.time) = 2
    /\ idx = 2
    /\ Cardinality(files) = 2

\* C10: the file is named after the station, the dataset, the effective
\* dates returned by the prober and the mode suffix; the data request and
\* the global attributes carry the same dates.
C10_FileNamedAfterEffectiveDates ==
    pc = "saved" =>
        /\ save_path = [station |-> station, dataset |-> Dataset,
                        start_date |-> start_date, end_date |-> end_date,
                        suffix |-> IF all_vars THEN "all-vars" ELSE "core-vars"]
        /\ JustAnswered(3)
        /\ sent[3].url.endpoint = "data"
        /\ sent[3].url.startDate = start_date
        /\ sent[3].url.endDate = end_date
        /\ data.attrs.start_date = start_date
        /\ data.attrs.end_date = end_date
C10_Witness ==
    /\ pc = "saved"
    /\ start_date # requested_start_date
    /\ end_date # requested_end_date
    /\ save_path.start_date = start_date
    /\ save_path.suffix = "all-vars"

\* C11: the soil-temperature family has 126 codes, one for each extremum,
\* each of the 9 ground covers (index 00..08) and each of the 7 depths
\* (index 01..07): two letters, the two digits of the ground cover, the two
\* digits of the depth; the entry of a code carries the depth and the
\* ground cover its digits name.
SoilBuilt == cpc \in {"soil_done", "return"} /\ all_vars
C11_SoilTemperatureCodes ==
    SoilBuilt =>
        /\ Cardinality(DOMAIN soil_temps) = 126
        /\ DOMAIN soil_temps =
             {p \o Pad2(g) \o Pad2(d) : p \in {"sn", "sx"}, g \in 0..8, d \in 1..7}
        /\ \A p \in {"sn", "sx"}, g \in 0..8, d \in 1..7 :
             /\ soil_temps[p \o Pad2(g) \o Pad2(d)]["depth"] = depth_codes[d] \o " cm"
             /\ soil_temps[p \o Pad2(g) \o Pad2(d)]["ground_cover"] = ground_cover[g + 1]
        /\ Len(ground_cover) = 9
        /\ Len(depth_codes) = 7
        /\ Cardinality(Range(ground_cover)) = 9
        /\ Cardinality(Range(depth_codes)) = 7
        /\ DOMAIN soil_temps = soil_temp_keys
        /\ cpc = "return" => soil_temp_keys \subseteq DOMAIN data_attrs
C11_Witness ==
    /\ cpc = "return"
    /\ all_vars
    /\ "sn0001" \in DOMAIN data_attrs
    /\ data_attrs["sx0807"]["depth"] = "180 cm"
    /\ data_attrs["sx0807"]["ground_cover"] = "bare muck"

\* C12: the weather-type family has the 22 codes wt01..wt22 and the 5 codes
\* wv01, wv03, wv07, wv18, wv20; a wv code carries the description of the wt
\* code of the same number; and 'not used' is one description of the list,
\* the one at index 19 counted from 0, which is the description of number 20.
WeatherBuilt == cpc \in {"weather_done", "soil_sn", "soil_sx", "soil_done", "return"} /\ all_vars
WtCodes == {"wt" \o Pad2(n) : n \in 1..22}
WvCodes == {"wv" \o Pad2(n) : n \in {1, 3, 7, 18, 20}}
HasText(entry, key) == key \in DOMAIN entry /\ entry[key] # ""
C13_EveryEntryDescribed ==
    cpc = "return" =>
        \A code \in DOMAIN data_attrs :
            /\ HasText(data_attrs[code], "units")
            /\ HasText(data_attrs[code], "standard_name")
            /\ "long_name" \in DOMAIN data_attrs[code]

\* C14: a station's processing leaves the inputs of the next ones alone.
\* No step changes the station list, the mode flags or the requested dates;
\* the stations are taken in list order; every request of an iteration
\* addresses that iteration's station, the first being the full-history
\* search and the second the search over the requested dates; the variable
\* list and range the data request, the dataset and the file name use are
\* the ones resolved from the range response of the same iteration.
SentFor(stn, n, url) == Len(sent') >= n => (sent'[n].url = url /\ sent'[n].url.stations = stn)
C14_Step ==
    /\ args' = args
    /\ idx' = idx \/ (idx' = idx + 1 /\ pc' = "probe_full" /\ sent' = <<>>)
    /\ Len(sent') <= 3
    /\ SentFor(stations[idx'], 1,
               construct_url(Dataset, stations[idx'], FullHistoryStart, Now, TRUE))
    /\ SentFor(stations[idx'], 2,
               construct_url(Dataset, stations[idx'], requested_start_date,
                             requested_end_date, TRUE))
    /\ pc' = "retrieve" =>
         LET o == check_range(request', requested_start_date, requested_end_date, all_vars)
         IN  /\ o.found
             /\ vars' = o.value.vars
             /\ start_date' = o.value.start_date
             /\ end_date' = o.value.end_date
    /\ Len(sent') > Len(sent) =>
         Len(sent') = Len(sent) + 1 /\ sent = SubSeq(sent', 1, Len(sent))
    /\ (Len(sent') = 3 /\ Len(sent) = 2) =>
         /\ pc = "retrieve"
         /\ SentFor(stations[idx], 3,
                    construct_url(Dataset, stations[idx], start_date, end_date, FALSE))
    /\ (pc = "retrieve" /\ pc' = "saved") =>
         /\ save_path' = save_name(stations[idx], Dataset, start_date, end_date, all_vars)
         /\ data'.attrs = get_global_attrs(Dataset, stations[idx], start_date, end_date)
         /\ data'.columns = [i \in 1..Len(vars) |-> Lower(vars[i])]
C14_StationsIndependent == [][C14_Step]_allvars
\* The second station's range search, sent for the requested dates and
\* answered with no result, after the first station was clamped to another
\* range and saved under it.
C14_Witness ==
    /\ idx = 2
    /\ pc = "skipped"
    /\ Len(sent) = 2
    /\ sent[2].url.stations = stations[2]
    /\ sent[2].url.startDate = requested_start_date
    /\ \E f \in files : f.station = stations[1] /\ f.start_date = start_date
    /\ start_date # requested_start_date

\* C15: with --info only search queries are sent: no request goes to the
\* data endpoint, the retrieval block (which makes the directory and writes
\* the file) is never entered and no file exists; a station for which the
\* prober returned no result prints no station summary, and the loop then
\* takes the next station and probes it.
Summaries(out) == {i \in 1..Len(out) : out[i].msg = "station_summary"}
C15_Step ==
    info =>
        /\ \A n \in 1..Len(sent') : sent'[n].url.endpoint = "search"
        /\ pc' \notin {"retrieve", "saved"}
        /\ files' = {}
        /\ save_path' = NoPath
        /\ data' = NoTable
        /\ pc' = "skipped" => Summaries(printed') = {}
        /\ pc' = "informed" => Summaries(printed') = {Len(printed')}
        /\ (pc = "skipped" /\ idx < Len(stations)) =>
             /\ idx' = idx + 1
             /\ pc' = "probe_full"
        /\ (pc' = "skipped" /\ idx' < Len(stations)) => (ENABLED ForStation)'
        /\ (pc = "probe_full" /\ idx > 1) =>
             /\ Len(sent') = 1
             /\ sent'[1].url = construct_url(Dataset, stations[idx], FullHistoryStart, Now, TRUE)
C15_InfoOnlySearches == [][C15_Step]_allvars
\* The second station is being probed with --info after the prober returned
\* no result for the first (nothing was ever assigned to vars).
C15_Witness ==
    /\ info
    /\ idx = 2
    /\ vars = <<>>
    /\ Len(sent) = 1
    /\ sent[1].answered
    /\ sent[1].url.stations = stations[2]
    /\ pc = "probe_range"

\* C16: without --all no lookup of the catalog misses.  Every variable of a
\* result the prober returned is one of TMIN, TMAX, PRCP, SNOW, SNWD; its
\* lowercased name is a key of the core dictionary; a dataset that got its
\* global attributes got the attributes of every one of its variables; and
\* the run never ends with the KeyError of the lookup of line 681.
CatalogMiss ==
    /\ pc = "raised"
    /\ exception = "KeyError"
    /\ Len(sent) = 3
    /\ data.attrs # NoAttrs
C16_CoreModeNoCatalogMiss ==
    ~all_vars =>
        /\ Returned =>
             /\ vars # <<>>
             /\ Range(vars) \subseteq Range(WantedVars)
        /\ Len(sent) = 3 => Range(vars) \subseteq Range(WantedVars)
        /\ \A v \in Range(vars) :
             /\ Lower(v) \in DOMAIN core_attrs
             /\ Lower(v) \in data_attrs_keys(all_vars)
        /\ data.attrs # NoAttrs =>
             /\ data.var_attrs = Range(data.columns)
             /\ data.var_attrs \subseteq DOMAIN core_attrs
        /\ ~CatalogMiss
        /\ pc = "saved" =>
             /\ data.attrs = get_global_attrs(Dataset, station, start_date, end_date)
             /\ data.columns = [i \in 1..Len(vars) |-> Lower(vars[i])]
C16_Witness ==
    /\ ~all_vars
    /\ pc = "saved"
    /\ vars = <<"TMIN", "PRCP">>
    /\ request.body.columns = <<"STATION", "AWND", "PRCP", "SN32", "TMIN">>
    /\ data.var_attrs = {"tmin", "prcp"}

====
